---- MODULE Spec2Model ----
(***************************************************************************)
(* node-persistent-queue: a SQLite backed FIFO queue (src/index.js).       *)
(*                                                                         *)
(* The model follows the Node.js execution model.  Every action is one     *)
(* turn of the event loop: a call made by the program that uses the queue  *)
(* (open, close, start, stop, add, done, abort, delete), the callback of   *)
(* one SQLite statement together with the promise continuations it runs,   *)
(* one setImmediate callback, or the setTimeout callback of close().       *)
(* The database runs in serialized mode (index.js:238): statements execute *)
(* one at a time in the order they were issued, so the statements in       *)
(* flight form the FIFO dbq.                                               *)
(***************************************************************************)
EXTENDS Integers, Sequences, FiniteSets, TLC

\* ------------------------------------------------------------------ bounds

\* How many add() calls a behaviour of Spec makes.
MaxJobs == 2
\* How many add() calls a behaviour of the scenario specifications makes.
MaxBurst == 4
\* How many start() calls that find the queue stopped a behaviour makes.
MaxStarts == 2
\* How many queues are opened on the file, one after the other.
MaxOpens == 2
\* How many delete(id) calls are in flight at a time.
MaxPending == 1
\* How many rows a database file holds when a queue is constructed on it.
MaxRows == 3

\* The batchSize the queue is constructed with (index.js:92 defaults to 10;
\* the tests construct queues with 1, 2 and 10).
batchSize == 2

\* The payloads handed to add().
Jobs == {"a", "b"}

\* ------------------------------------------------------------- JavaScript

\* this.length is null until countQueue ran; a number is held in a 1-tuple so
\* that null and numbers can be compared.
Null == <<>>
Number(n) == <<n>>
\* null coerces to 0 in arithmetic (length++ and length--).
ToNumber(l) == IF l = Null THEN 0 ELSE l[1]

\* JSON.stringify on the payloads: a string is stored with its quotes.
JSONstringify(job) ==
    CASE job = "a" -> "\"a\""
      [] job = "b" -> "\"b\""
      [] OTHER -> "null"

\* The value JSON.parse throws on is modelled by this result.
SyntaxError == "SyntaxError"

\* JSON.parse on a stored text.
JSONparse(text) ==
    CASE text = "\"a\"" -> "a"
      [] text = "\"b\"" -> "b"
      [] text = "null" -> "null"
      [] OTHER -> SyntaxError

\* The task emit('next', this.queue[0]) carries when the cache is empty.
Undefined == [id |-> 0, job |-> "undefined"]

\* A JavaScript value handed to the constructor: its typeof, its text when it
\* is a string (or which special value it is), its value when it is a number.
JSValue(type, text, num) == [type |-> type, text |-> text, num |-> num]
JSundefined == JSValue("undefined", "", 0)
JSnull == JSValue("object", "null", 0)
JStrue == JSValue("boolean", "true", 0)
JSString(text) == JSValue("string", text, 0)
JSNumber(n) == JSValue("number", "", n)
\* typeof NaN is 'number', and every comparison with NaN is false.
NaN == JSValue("number", "NaN", 0)
\* v <= n for a value whose typeof is 'number'
LessOrEqual(v, n) == v # NaN /\ v.num <= n

\* v < n for a value whose typeof is 'number'
LessThan(v, n) == v # NaN /\ v.num < n

\* The values a program hands to the constructor as filename and batchSize.
Filenames ==
    {JSundefined, JSString(""), JSString(":memory:"), JSString("queue.sqlite"),
     JStrue}
Sizes ==
    {JSundefined, JSnull, JStrue, JSString("2"), NaN}
        \cup {JSNumber(n) : n \in {-1, 0, 1, 2, 3, 10}}

\* The messages of the errors the queue throws.
NoFilename == "No filename parameter provided"
InvalidBatchSize == "Invalid batchSize parameter.  Must be a number > 0"
NotOpenStart == "Open queue database before starting queue"
NotOpenIsEmpty == "Call open() method before calling isEmpty()"
NotOpenGetSqlite3 == "Call open() method before calling getSqlite3()"

\* function PersistentQueue(filename, batchSize): the error it throws ("" if
\* none) and the fields of the object it returns.
PersistentQueue(filename, size) ==
    LET dbPath == IF filename = JSString("") THEN JSString(":memory:")
                  ELSE filename
        batch  == IF size = JSundefined THEN JSNumber(10) ELSE size
    IN  IF filename = JSundefined
        THEN [thrown |-> NoFilename]
        ELSE IF batch.type # "number" \/ LessThan(batch, 1)
        THEN [thrown |-> InvalidBatchSize]
        ELSE [thrown |-> "", empty |-> "undefined", dbPath |-> dbPath,
              batchSize |-> batch, queue |-> <<>>, length |-> Null,
              db |-> "null", opened |-> FALSE, run |-> FALSE]

\* The promises of the queue, by the method that returned them: how the last
\* one was settled, the argument of the call and the value it settled with
\* (open() resolves with the rows hydrated, here "jobs", or rejects with the
\* error)
\* (for add, of which several are pending at a time, also how many settled).
NoPromises ==
    [open          |-> [how |-> "none", arg |-> 0, value |-> ""],
     add           |-> [how |-> "none", arg |-> "", value |-> 0, n |-> 0],
     close         |-> [how |-> "none", arg |-> 0, value |-> 0],
     delete        |-> [how |-> "none", arg |-> 0, value |-> 0],
     has           |-> [how |-> "none", arg |-> 0, value |-> ""],
     getJobIds     |-> [how |-> "none", arg |-> "", value |-> <<>>],
     getFirstJobId |-> [how |-> "none", arg |-> "", value |-> <<>>]]

\* What the listeners of the program have heard of the events add, delete,
\* empty and close: how many times the event was emitted, and what the listener
\* of the last one was handed and saw when it asked the queue (the listener
\* of empty also notes how many add events it has heard).
NoEvents ==
    [add    |-> [n |-> 0, id |-> 0, length |-> Null],
     delete |-> [n |-> 0, id |-> 0, length |-> Null, cached |-> FALSE,
                 stored |-> FALSE],
     empty  |-> [n |-> 0, length |-> Null, cached |-> 0, adds |-> 0],
     close  |-> [n |-> 0, opened |-> FALSE]]

\* --------------------------------------------------------------- the state

VARIABLES
    \* the SQLite file: the rows of table queue, the row of table queue_count,
    \* and the AUTOINCREMENT sequence
    store, counter, lastID,
    \* the fields of the PersistentQueue object
    empty, queue, length, db, opened, run,
    \* the event loop: statements in flight, pending setImmediate callbacks,
    \* the pending setTimeout of close(), and whether the process died
    dbq, immediates, closeTimer, crashed,
    \* what the program using the queue has seen and done
    delivered, outstanding, addCalls, emptyEvents, starts, opens, aborted,
    \* the constructor call that made the queue, the messages of the errors
    \* thrown at the program, how the last promise of each kind was settled,
    \* the open and delete events emitted, and what the listeners heard
    made, thrown, settled, openEvents, deleteEvents, heard,
    \* what console.error has printed
    stderr

vars == <<store, counter, lastID, empty, queue, length, db, opened, run,
          dbq, immediates, closeTimer, crashed,
          delivered, outstanding, addCalls, emptyEvents, starts, opens, aborted,
          made, thrown, settled, openEvents, deleteEvents, heard, stderr>>

\* The handlers below are functions from state to state, composed the way the
\* code calls them; Cur is the state they start from and Commit the state they
\* end in.
Cur ==
    [store |-> store, counter |-> counter, lastID |-> lastID,
     empty |-> empty, queue |-> queue, length |-> length, db |-> db,
     opened |-> opened, run |-> run,
     dbq |-> dbq, immediates |-> immediates, closeTimer |-> closeTimer,
     crashed |-> crashed,
     delivered |-> delivered, outstanding |-> outstanding,
     addCalls |-> addCalls, emptyEvents |-> emptyEvents, starts |-> starts,
     opens |-> opens, aborted |-> aborted,
     made |-> made, thrown |-> thrown, settled |-> settled,
     openEvents |-> openEvents, deleteEvents |-> deleteEvents,
     heard |-> heard, stderr |-> stderr]

Commit(s) ==
    /\ store' = s.store /\ counter' = s.counter /\ lastID' = s.lastID
    /\ empty' = s.empty /\ queue' = s.queue /\ length' = s.length
    /\ db' = s.db /\ opened' = s.opened /\ run' = s.run
    /\ dbq' = s.dbq /\ immediates' = s.immediates
    /\ closeTimer' = s.closeTimer /\ crashed' = s.crashed
    /\ delivered' = s.delivered /\ outstanding' = s.outstanding
    /\ addCalls' = s.addCalls /\ emptyEvents' = s.emptyEvents
    /\ starts' = s.starts /\ opens' = s.opens /\ aborted' = s.aborted
    /\ made' = s.made /\ thrown' = s.thrown /\ settled' = s.settled
    /\ openEvents' = s.openEvents /\ deleteEvents' = s.deleteEvents
    /\ heard' = s.heard /\ stderr' = s.stderr

\* A statement in flight: what it is, its argument, and whose callback it runs.
Stmt(op, id, job, src) == [op |-> op, id |-> id, job |-> job, src |-> src]

\* db.run / db.get / db.all / db.exec / db.close: the statement joins the queue
\* of the serialized database.
Issue(s, stmt) == [s EXCEPT !.dbq = Append(@, stmt)]

\* An uncaught exception or process.exit(1): the process is gone.
Crash(s) == [s EXCEPT !.crashed = TRUE]

\* console.error(err): the error, and the id its message names (0 if none).
ConsoleError(s, err, id) ==
    [s EXCEPT !.stderr = @ \cup {[err |-> err, id |-> id]}]

\* The error removeJob rejects with when its DELETE removed no row:
\* 'Job id ' + id + ' was not removed from queue'.
NotRemoved == "Job id was not removed from queue"

\* The error of a statement that failed.
SqliteError == "SQLITE_ERROR"

\* An exception reaches the program that made the call.
Throw(s, message) == [s EXCEPT !.thrown = @ \cup {message}]

\* A method returns a new promise.
NewPromise(s, kind, arg) ==
    [s EXCEPT !.settled[kind].how = "pending", !.settled[kind].arg = arg]

\* resolve(value) or reject(value) on a promise: the first settlement stands.
Settle(s, kind, how, value) ==
    IF s.settled[kind].how = "pending"
    THEN [s EXCEPT !.settled[kind].how = how, !.settled[kind].value = value]
    ELSE s

\* The ids of the rows of the table.
Ids(rows) == {r.id : r \in rows}

\* The listener the program registered for an event runs after the handler
\* the constructor registered for it; it is handed the id and it calls
\* getLength().
HearAdd(s, id) ==
    [s EXCEPT !.heard.add = [n |-> @.n + 1, id |-> id, length |-> s.length]]

HearDelete(s, id) ==
    [s EXCEPT !.heard.delete =
        [n |-> @.n + 1, id |-> id, length |-> s.length,
         cached |-> \E i \in 1..Len(s.queue) : s.queue[i].id = id,
         stored |-> id \in Ids(s.store)]]

HearEmpty(s) ==
    [s EXCEPT !.heard.empty =
        [n |-> @.n + 1, length |-> s.length, cached |-> Len(s.queue),
         adds |-> s.heard.add.n]]

HearClose(s) ==
    [s EXCEPT !.heard.close = [n |-> @.n + 1, opened |-> s.opened]]

\* The SELECT with the order reversed (ORDER BY id DESC).
RECURSIVE SelectNewest(_, _)
SelectNewest(rows, n) ==
    IF n = 0 \/ rows = {} THEN <<>>
    ELSE LET first == CHOOSE r \in rows : \A o \in rows : r.id >= o.id
         IN  <<first>> \o SelectNewest(rows \ {first}, n - 1)

\* SELECT * FROM queue ORDER BY id ASC LIMIT n
RECURSIVE SelectOldest(_, _)
SelectOldest(rows, n) ==
    IF n = 0 \/ rows = {} THEN <<>>
    ELSE LET first == CHOOSE r \in rows : \A o \in rows : r.id <= o.id
         IN  <<first>> \o SelectOldest(rows \ {first}, n - 1)

\* ------------------------------------------------- the queue's own handlers

\* this.on('stop')
OnStop(s) == [s EXCEPT !.run = FALSE]

\* hydrateQueue(q, size): the SELECT is issued; its callback is HydrateRows.
\* src says which continuation follows: open()'s or trigger_next's.
hydrateQueue(s, src) ==
    IF s.db = "null" THEN Crash(s)
    ELSE Issue(s, Stmt("hydrate", 0, "", src))

\* The empty handler leaving the flag as it is.
OnEmptyKeepFlag(s) == Issue(s, Stmt("vacuum", 0, "", "empty"))

\* this.on('empty'): the flag is set and VACUUM issued (it has no callback).
OnEmpty(s) ==
    Issue([s EXCEPT !.empty = "true"], Stmt("vacuum", 0, "", "empty"))

\* A trigger that takes the task it delivers off the cache and the count.
triggerTakes(s) ==
    LET task == IF s.queue = <<>> THEN Undefined ELSE Head(s.queue)
    IN  [s EXCEPT !.immediates = @ - 1,
                  !.delivered = Append(@, task),
                  !.outstanding = Append(@, task.id),
                  !.aborted = 0,
                  !.queue = IF @ = <<>> THEN @ ELSE Tail(@),
                  !.length = Number(ToNumber(@) - 1)]

\* The trigger closure of trigger_next, run by setImmediate: emit('next').
trigger(s) ==
    LET task == IF s.queue = <<>> THEN Undefined ELSE Head(s.queue)
    IN  [s EXCEPT !.immediates = @ - 1,
                  !.delivered = Append(@, task),
                  !.outstanding = Append(@, task.id),
                  !.aborted = 0]

\* trigger() called in place, not deferred.
CallTrigger(s) == trigger([s EXCEPT !.immediates = @ + 1])

\* setImmediate(trigger)
SetImmediate(s) == [s EXCEPT !.immediates = @ + 1]

\* The trigger_next handler without its check of the empty flag.
OnTriggerNextNoGuard(s) ==
    IF ~s.run THEN s
    ELSE IF Len(s.queue) = 0 /\ s.length # Number(0)
         THEN hydrateQueue(s, "trigger")
    ELSE IF Len(s.queue) # 0 THEN SetImmediate(s)
    ELSE HearEmpty(OnEmpty([s EXCEPT !.emptyEvents = @ + 1]))

\* this.on('trigger_next')
OnTriggerNext(s) ==
    IF ~s.run \/ s.empty = "true" THEN s
    ELSE IF Len(s.queue) = 0 /\ s.length # Number(0)
         THEN hydrateQueue(s, "trigger")
    ELSE IF Len(s.queue) # 0 THEN SetImmediate(s)
    ELSE HearEmpty(OnEmpty([s EXCEPT !.emptyEvents = @ + 1]))

\* this.on('start'), on a queue whose db is set
\* The start handler without its test of this.run.
OnStartRaises(s) ==
    IF s.run = FALSE
    THEN OnTriggerNext([s EXCEPT !.run = TRUE, !.starts = @ + 1])
    ELSE OnTriggerNext(s)

OnStart(s) ==
    IF s.run = FALSE
    THEN OnTriggerNext([s EXCEPT !.run = TRUE, !.starts = @ + 1])
    ELSE s

\* start(): emit('start') runs the handler, which throws when db is null.
start(s) == IF s.db = "null" THEN Throw(s, NotOpenStart) ELSE OnStart(s)

\* this.on('add')
OnAdd(s) ==
    IF s.empty = "true"
    THEN LET t == [s EXCEPT !.empty = "false"]
         IN  IF t.run THEN OnTriggerNext(t) ELSE t
    ELSE s

\* this.on('open')
OnOpen(s) == [s EXCEPT !.opened = TRUE, !.openEvents = @ + 1]

\* The close handler leaving this.db as it is.
OnCloseKeepDb(s) ==
    [s EXCEPT !.opened = FALSE, !.empty = "undefined", !.run = FALSE,
              !.queue = <<>>]

\* this.on('close')
OnClose(s) ==
    [s EXCEPT !.opened = FALSE, !.db = "null", !.empty = "undefined",
              !.run = FALSE, !.queue = <<>>]

\* The splice of removeJob: the first cached task with this id is taken out.
Splice(q, id) ==
    IF \E i \in 1..Len(q) : q[i].id = id
    THEN LET i == CHOOSE k \in 1..Len(q) :
                      q[k].id = id /\ \A j \in 1..(k - 1) : q[j].id # id
         IN  SubSeq(q, 1, i - 1) \o SubSeq(q, i + 1, Len(q))
    ELSE q

\* removeJob(q, id): id 0 stands for the omitted id (the head is shifted off
\* the cache); src says who called: done() or delete().
removeJob(s, id, src) ==
    IF id = 0
    THEN IF s.queue = <<>> THEN Crash(s)
         ELSE Issue([s EXCEPT !.queue = Tail(@)],
                    Stmt("delete", Head(s.queue).id, "", src))
    ELSE Issue([s EXCEPT !.queue = Splice(@, id)], Stmt("delete", id, "", src))

\* The cache holds a task with this id.
Cached(s, id) == \E i \in 1..Len(s.queue) : s.queue[i].id = id

\* has(id): the executor is written (reject, resolve) => ..., so the function
\* the code calls resolve is the one that rejects the promise, and the one it
\* calls reject fulfils it.  The loop over the cache does not return, so the
\* SELECT is issued in every case.
has(s, id) ==
    LET p == NewPromise(s, "has", id)
    IN  Issue(IF Cached(s, id) THEN Settle(p, "has", "rejected", "true") ELSE p,
              Stmt("has", id, "", "has"))

\* searchQueue(q, job): the SELECT is issued; src says whose promise its
\* callback settles.
searchQueue(s, job, src) ==
    IF s.db = "null"
    THEN (IF src = "getJobIds"
          THEN Settle(s, "getJobIds", "rejected", <<>>) ELSE Crash(s))
    ELSE Issue(s, Stmt("search", 0, job, src))

\* getJobIds(job)
getJobIds(s, job) ==
    searchQueue(NewPromise(s, "getJobIds", job), job, "getJobIds")

\* The index findIndex returns in getFirstJobId: the first cached task whose
\* payload serialises to the text of the pattern (0 for -1).
FindIndex(q, text) ==
    IF \E i \in 1..Len(q) : JSONstringify(q[i].job) = text
    THEN CHOOSE i \in 1..Len(q) :
             /\ JSONstringify(q[i].job) = text
             /\ \A j \in 1..(i - 1) : JSONstringify(q[j].job) # text
    ELSE 0

\* getFirstJobId(job): the cache is searched first, the store only when the
\* cache has no match.
getFirstJobId(s, job) ==
    LET p == NewPromise(s, "getFirstJobId", job)
        i == FindIndex(s.queue, JSONstringify(job))
    IN  IF i # 0
        THEN Settle(p, "getFirstJobId", "fulfilled", Number(s.queue[i].id))
        ELSE searchQueue(p, job, "getFirstJobId")

\* isEmpty(): the error it throws ("" if none) and the value it returns.
isEmpty(s) ==
    IF s.empty = "undefined"
    THEN [thrown |-> NotOpenIsEmpty, value |-> "undefined"]
    ELSE [thrown |-> "", value |-> s.empty]

\* getSqlite3()
getSqlite3(s) ==
    IF s.db = "null"
    THEN [thrown |-> NotOpenGetSqlite3, value |-> "null"]
    ELSE [thrown |-> "", value |-> s.db]

\* isOpen(), isStarted(), getLength()
isOpen(s) == s.opened
isStarted(s) == s.run
getLength(s) == s.length

\* ------------------------------------------- the callbacks of the statements

\* The callback of has()'s SELECT: "resolve(row !== undefined)".
HasDone(s, id) ==
    Settle(s, "has", "rejected", IF id \in Ids(s.store) THEN "true" ELSE "false")

\* The callback of has()'s SELECT when it failed: "reject(err)".
HasFailed(s) == Settle(s, "has", "fulfilled", "SQLITE_MISUSE")

\* The SELECT of searchQueue without its WHERE clause.
RECURSIVE SelectIds(_, _)
SelectIds(rows, text) ==
    IF rows = {} THEN <<>>
    ELSE LET first == CHOOSE r \in rows : \A o \in rows : r.id <= o.id
         IN  <<first.id>> \o SelectIds(rows \ {first}, text)

\* SELECT id FROM queue where job = ? ORDER BY id ASC
RECURSIVE SelectIdsWhereJob(_, _)
SelectIdsWhereJob(rows, text) ==
    LET match == {r \in rows : r.job = text}
    IN  IF match = {} THEN <<>>
        ELSE LET first == CHOOSE r \in match : \A o \in match : r.id <= o.id
             IN  <<first.id>> \o SelectIdsWhereJob(match \ {first}, text)

\* The callback of searchQueue's SELECT and the continuation of its promise:
\* getJobIds resolves with the ids, getFirstJobId with the first or null.
SearchDone(s, job, src) ==
    LET ids == SelectIdsWhereJob(s.store, JSONstringify(job))
    IN  IF src = "getJobIds" THEN Settle(s, "getJobIds", "fulfilled", ids)
        ELSE Settle(s, "getFirstJobId", "fulfilled",
                    IF Len(ids) = 0 THEN Null ELSE Number(ids[1]))

\* new sqlite3.Database(...) failed: open() rejects; this.db was assigned
\* when open() was called and stays.
OpenFailed(s) == Settle(s, "open", "rejected", "SQLITE_CANTOPEN")

\* new sqlite3.Database(...) succeeded: serialize, then the schema is run.
OpenDone(s) == Issue(s, Stmt("schema", 0, "", "open"))

\* The schema script without its UPDATE of the counter.
SchemaDoneKeepCounter(s) == Issue(s, Stmt("count", 0, "", "open"))

\* The schema script ran: the counter row is set to count(*); countQueue.
SchemaDone(s) ==
    Issue([s EXCEPT !.counter = Cardinality(s.store)],
          Stmt("count", 0, "", "open"))

\* countQueue's callback leaving this.length as it was.
countQueueKeepLength(s) == hydrateQueue(s, "open")

\* countQueue's callback, then open() goes on to hydrateQueue.
countQueue(s) ==
    hydrateQueue([s EXCEPT !.length = Number(s.counter)], "open")

\* The cache built without the first of the rows selected.
HydrateRowsSkipFirst(rows) ==
    IF rows = <<>> THEN <<>>
    ELSE [i \in 1..(Len(rows) - 1) |->
             [id |-> rows[i + 1].id, job |-> JSONparse(rows[i + 1].job)]]

\* The cache hydrateQueue's callback builds from the rows selected.
HydrateRows(rows) ==
    [i \in 1..Len(rows) |->
        IF JSONparse(rows[i].job) = SyntaxError THEN Undefined
        ELSE [id |-> rows[i].id, job |-> JSONparse(rows[i].job)]]

\* hydrateQueue's callback skipping the rows it cannot parse.
HydrateDoneSkips(s, src) ==
    LET rows == SelectOldest(s.store, batchSize)
        good == SelectSeq(rows, LAMBDA r : JSONparse(r.job) # SyntaxError)
        t    == [s EXCEPT !.queue = HydrateRows(good)]
    IN  IF src = "trigger" THEN SetImmediate(t)
        ELSE Settle(OnOpen([t EXCEPT !.empty =
                                IF Len(t.queue) = 0 THEN "true" ELSE "false"]),
                    "open", "fulfilled", "jobs")

\* hydrateQueue's callback adding the number of rows it loaded to the count.
HydrateDoneCounts(s, src) ==
    LET rows == SelectOldest(s.store, batchSize)
        bad  == \E i \in 1..Len(rows) : JSONparse(rows[i].job) = SyntaxError
        t    == [s EXCEPT !.queue = HydrateRows(rows),
                          !.length = Number(ToNumber(@) + Len(rows))]
    IN  IF bad THEN (IF src = "trigger"
                     THEN Crash(ConsoleError(t, SyntaxError, 0))
                     ELSE Settle(t, "open", "rejected", SyntaxError))
        ELSE IF src = "trigger" THEN SetImmediate(t)
        ELSE Settle(OnOpen([t EXCEPT !.empty =
                                IF Len(t.queue) = 0 THEN "true" ELSE "false"]),
                    "open", "fulfilled", "jobs")

\* hydrateQueue's callback adding the rows to the cache it finds.
HydrateDoneAppends(s, src) ==
    LET rows == SelectOldest(s.store, batchSize)
        bad  == \E i \in 1..Len(rows) : JSONparse(rows[i].job) = SyntaxError
        t    == [s EXCEPT !.queue = @ \o HydrateRows(rows)]
    IN  IF bad THEN (IF src = "trigger"
                     THEN Crash(ConsoleError(t, SyntaxError, 0))
                     ELSE Settle(t, "open", "rejected", SyntaxError))
        ELSE IF src = "trigger" THEN SetImmediate(t)
        ELSE Settle(OnOpen([t EXCEPT !.empty =
                                IF Len(t.queue) = 0 THEN "true" ELSE "false"]),
                    "open", "fulfilled", "jobs")

\* hydrateQueue's callback and the continuation of its promise.
HydrateDone(s, src) ==
    LET rows == SelectOldest(s.store, batchSize)
        bad  == \E i \in 1..Len(rows) : JSONparse(rows[i].job) = SyntaxError
        t    == [s EXCEPT !.queue = HydrateRows(rows)]
    IN  IF bad THEN (IF src = "trigger"
                     THEN Crash(ConsoleError(t, SyntaxError, 0))
                     ELSE Settle(t, "open", "rejected", SyntaxError))
        ELSE IF src = "trigger" THEN SetImmediate(t)
        ELSE Settle(OnOpen([t EXCEPT !.empty =
                                IF Len(t.queue) = 0 THEN "true" ELSE "false"]),
                    "open", "fulfilled", "jobs")

\* add()'s callback emitting add before it increments the length.
InsertDoneEmitFirst(s, job) ==
    LET id == s.lastID + 1
        t  == [s EXCEPT !.store = @ \cup {[id |-> id, job |-> JSONstringify(job)]},
                        !.lastID = id,
                        !.counter = @ + 1]
    IN  [HearAdd(OnAdd(t), id)
            EXCEPT !.length = Number(ToNumber(@) + 1),
                   !.settled.add =
                       [how |-> "fulfilled", arg |-> job, value |-> id,
                        n |-> @.n + 1]]

\* The INSERT ran (the insert trigger of the schema counts it), then add()'s
\* callback.
InsertDone(s, job) ==
    LET id == s.lastID + 1
        t  == [s EXCEPT !.store = @ \cup {[id |-> id, job |-> JSONstringify(job)]},
                        !.lastID = id,
                        !.counter = @ + 1]
    IN  [HearAdd(OnAdd([t EXCEPT !.length = Number(ToNumber(@) + 1)]), id)
            EXCEPT !.settled.add =
                       [how |-> "fulfilled", arg |-> job, value |-> id,
                        n |-> @.n + 1]]

\* add()'s callback when the INSERT failed: reject(err) does not return, so
\* the length is incremented and add emitted, with the lastID of a statement
\* that inserted nothing (undefined, here 0).
InsertFailed(s, job) ==
    [HearAdd(OnAdd([s EXCEPT !.length = Number(ToNumber(@) + 1)]), 0)
        EXCEPT !.settled.add =
                   [how |-> "rejected", arg |-> job, value |-> 0, n |-> @.n + 1]]

\* done()'s continuation without the decrement of the length.
DoneThenKeepLength(s) == OnTriggerNext(s)

\* The continuation of removeJob's promise in done().
DoneThen(s) ==
    OnTriggerNext([s EXCEPT !.length = Number(ToNumber(@) - 1)])

\* The continuation of removeJob's promise in delete(): the delete event is
\* emitted, then the length decremented.
\* delete() then resolves with the id.
DeleteThen(s, id) ==
    [HearDelete(s, id) EXCEPT
        !.deleteEvents = Append(@, id),
        !.length = Number(ToNumber(@) - 1),
        !.settled.delete = [how |-> "fulfilled", arg |-> id, value |-> id]]

\* done()'s catch going on without console.error and process.exit(1).
RemoveRejectedGoesOn(s, id, src, err) ==
    IF src = "done" THEN s
    ELSE [s EXCEPT !.settled.delete =
                       [how |-> "rejected", arg |-> id, value |-> 0]]

\* removeJob's promise rejected: done() prints the error and exits the
\* process, delete() rejects.
RemoveRejected(s, id, src, err) ==
    IF src = "done" THEN Crash(ConsoleError(s, err, id))
    ELSE [s EXCEPT !.settled.delete =
                       [how |-> "rejected", arg |-> id, value |-> 0]]

\* The DELETE ran (the delete trigger of the schema counts it), then
\* removeJob's callback: this.changes decides.
DeleteDone(s, id, src) ==
    IF id \in Ids(s.store)
    THEN LET t == [s EXCEPT !.store = {r \in @ : r.id # id},
                            !.counter = @ - 1]
         IN  IF src = "done" THEN DoneThen(t) ELSE DeleteThen(t, id)
    ELSE RemoveRejected(s, id, src, NotRemoved)

\* The callback of a statement that failed (an I/O error, or the database was
\* closed before the statement ran).
StmtFailed(s, stmt) ==
    CASE stmt.op = "opendb" -> OpenFailed(s)
      [] stmt.op = "insert" -> InsertFailed(s, stmt.job)
      [] stmt.op = "delete" ->
            RemoveRejected(s, stmt.id, stmt.src, SqliteError)
      [] stmt.op = "has"    -> HasFailed(s)
      [] OTHER -> Crash(s)

\* Database.close() completed: statements issued after it fail one by one.
RECURSIVE FailAll(_, _)
FailAll(s, stmts) ==
    IF stmts = <<>> THEN s
    ELSE FailAll(StmtFailed(s, Head(stmts)), Tail(stmts))

\* db.close's callback: emit('close'), resolve(); the statements behind it
\* fail.
CloseDone(s) ==
    FailAll(Settle(HearClose(OnClose([s EXCEPT !.dbq = <<>>])),
                   "close", "fulfilled", 0),
            s.dbq)

\* One statement of the serialized database completes and its callback runs.
StmtDone(s, stmt) ==
    CASE stmt.op = "opendb"  -> OpenDone(s)
      [] stmt.op = "schema"  -> SchemaDone(s)
      [] stmt.op = "count"   -> countQueue(s)
      [] stmt.op = "hydrate" -> HydrateDone(s, stmt.src)
      [] stmt.op = "insert"  -> InsertDone(s, stmt.job)
      [] stmt.op = "delete"  -> DeleteDone(s, stmt.id, stmt.src)
      [] stmt.op = "has"     -> HasDone(s, stmt.id)
      [] stmt.op = "search"  -> SearchDone(s, stmt.job, stmt.src)
      [] stmt.op = "vacuum"  -> s
      [] stmt.op = "closedb" -> CloseDone(s)

\* The state with the statement at the head of dbq taken off.
Popped == [Cur EXCEPT !.dbq = Tail(@)]

\* --------------------------------------------------------------- the start

\* new PersistentQueue(filename, batchSize) on a new, empty database file.
Init ==
    /\ store = {} /\ counter = 0 /\ lastID = 0
    /\ empty = "undefined" /\ queue = <<>> /\ length = Null
    /\ db = "null" /\ opened = FALSE /\ run = FALSE
    /\ dbq = <<>> /\ immediates = 0 /\ closeTimer = FALSE /\ crashed = FALSE
    /\ delivered = <<>> /\ outstanding = <<>> /\ addCalls = <<>>
    /\ emptyEvents = 0 /\ starts = 0 /\ opens = 0 /\ aborted = 0
    /\ made = [filename |-> JSString("queue.sqlite"),
               size |-> JSNumber(batchSize), done |-> TRUE,
               dbPath |-> JSString("queue.sqlite"),
               batchSize |-> JSNumber(batchSize)]
    /\ thrown = {} /\ settled = NoPromises
    /\ openEvents = 0 /\ deleteEvents = <<>> /\ heard = NoEvents
    /\ stderr = {}

\* The texts found in the rows of a database file: payloads the queue wrote,
\* and a text that is not JSON (test/db.sqlite of the tests).
Texts == {JSONstringify("a"), JSONstringify("b"), "{bad"}

\* new PersistentQueue(filename, batchSize) on a database file that holds
\* rows already; its counter is the one a queue left, or none.
InitFile ==
    /\ \E n \in 0..MaxRows :
          /\ store \in {{[id |-> i, job |-> f[i]] : i \in 1..n} :
                            f \in [1..n -> Texts]}
          /\ lastID = n
          /\ counter \in {0, n}
    /\ empty = "undefined" /\ queue = <<>> /\ length = Null
    /\ db = "null" /\ opened = FALSE /\ run = FALSE
    /\ dbq = <<>> /\ immediates = 0 /\ closeTimer = FALSE /\ crashed = FALSE
    /\ delivered = <<>> /\ outstanding = <<>> /\ addCalls = <<>>
    /\ emptyEvents = 0 /\ starts = 0 /\ opens = 0 /\ aborted = 0
    /\ made = [filename |-> JSString("queue.sqlite"),
               size |-> JSNumber(batchSize), done |-> TRUE,
               dbPath |-> JSString("queue.sqlite"),
               batchSize |-> JSNumber(batchSize)]
    /\ thrown = {} /\ settled = NoPromises
    /\ openEvents = 0 /\ deleteEvents = <<>> /\ heard = NoEvents
    /\ stderr = {}

\* Before new PersistentQueue(filename, batchSize) is evaluated: the arguments
\* are chosen and no field of the object is set.
InitNew ==
    /\ store = {} /\ counter = 0 /\ lastID = 0
    /\ empty = "unset" /\ queue = "unset" /\ length = "unset"
    /\ db = "unset" /\ opened = "unset" /\ run = "unset"
    /\ dbq = <<>> /\ immediates = 0 /\ closeTimer = FALSE /\ crashed = FALSE
    /\ delivered = <<>> /\ outstanding = <<>> /\ addCalls = <<>>
    /\ emptyEvents = 0 /\ starts = 0 /\ opens = 0 /\ aborted = 0
    /\ made \in [filename : Filenames, size : Sizes, done : {FALSE},
                 dbPath : {JSundefined}, batchSize : {JSundefined}]
    /\ thrown = {} /\ settled = NoPromises
    /\ openEvents = 0 /\ deleteEvents = <<>> /\ heard = NoEvents
    /\ stderr = {}

\* The program using the queue calls add, done and delete on a queue whose
\* open() has resolved (README, Usage).
Ready == ~crashed /\ opened

\* The sequence without its i-th element.
Without(seq, i) == SubSeq(seq, 1, i - 1) \o SubSeq(seq, i + 1, Len(seq))

\* ------------------------------------------------ the calls of the program

\* new PersistentQueue(filename, batchSize)
New ==
    /\ ~made.done
    /\ LET q == PersistentQueue(made.filename, made.size)
       IN  IF q.thrown # ""
           THEN Commit(Throw([Cur EXCEPT !.made.done = TRUE], q.thrown))
           ELSE Commit([Cur EXCEPT !.made.done = TRUE,
                                   !.made.dbPath = q.dbPath,
                                   !.made.batchSize = q.batchSize,
                                   !.empty = q.empty, !.queue = q.queue,
                                   !.length = q.length, !.db = q.db,
                                   !.opened = q.opened, !.run = q.run])

\* open(), on the queue the constructor returned
Open ==
    /\ ~crashed /\ db = "null" /\ ~closeTimer /\ length = Null
    /\ Commit(Issue(NewPromise([Cur EXCEPT !.db = "handle", !.opens = @ + 1],
                               "open", 0),
                    Stmt("opendb", 0, "", "open")))

\* A new PersistentQueue on the same file, once the old one is closed and
\* nothing of it is left in the event loop: the constructor's assignments.
NewQueue ==
    /\ ~crashed /\ db = "null" /\ ~opened /\ opens > 0 /\ opens < MaxOpens
    /\ dbq = <<>> /\ immediates = 0 /\ ~closeTimer
    /\ Commit([Cur EXCEPT !.empty = "undefined", !.queue = <<>>,
                          !.length = Null, !.run = FALSE,
                          !.delivered = <<>>, !.outstanding = <<>>,
                          !.aborted = 0, !.thrown = {},
                          !.settled = NoPromises,
                          !.openEvents = 0, !.deleteEvents = <<>>,
                          !.heard = NoEvents])

\* close(): setTimeout(..., 0)
Close ==
    /\ Ready /\ ~closeTimer
    /\ \A i \in 1..Len(dbq) : dbq[i].op # "closedb"
    /\ Commit(NewPromise([Cur EXCEPT !.closeTimer = TRUE], "close", 0))

\* start(), on an open queue
Start ==
    /\ ~crashed /\ opened
    /\ run \/ starts < MaxStarts
    /\ Commit(start(Cur))

\* start(), on a queue whose db is null: the start handler throws.
StartUnopened ==
    /\ ~crashed /\ db = "null"
    /\ Commit(start(Cur))

\* stop()
Stop ==
    /\ ~crashed
    /\ Commit(OnStop(Cur))

\* add(job)
add(s, job) ==
    Issue([s EXCEPT !.addCalls = Append(@, job)], Stmt("insert", 0, job, "add"))

Add(job) ==
    /\ Ready /\ Len(addCalls) < MaxJobs
    /\ Commit(add(Cur, job))

\* add(job) on the first queue opened on the file.
RestartAdd(job) ==
    /\ Ready /\ Len(addCalls) < MaxBurst
    /\ opens = 1
    /\ lastID = 0 \/ ~run
    /\ Commit(add(Cur, job))

\* add(job) by a program that adds its tasks in one burst (before the first
\* INSERT completes) or before it starts the queue.
DrainAdd(job) ==
    /\ Ready /\ Len(addCalls) < MaxBurst
    /\ lastID = 0 \/ ~run
    /\ Commit(add(Cur, job))

\* done(), called for the i-th of the deliveries not yet answered.
Done(i) ==
    /\ Ready
    /\ Commit(removeJob([Cur EXCEPT !.outstanding = Without(@, i)], 0, "done"))

\* abort() taking the head off the cache, as done() does.
AbortShifts(i) ==
    /\ ~crashed
    /\ Commit(OnStop([Cur EXCEPT !.outstanding = Without(@, i),
                                 !.aborted = outstanding[i],
                                 !.queue = IF @ = <<>> THEN @ ELSE Tail(@)]))

\* abort(), called for the i-th of the deliveries not yet answered.
Abort(i) ==
    /\ ~crashed
    /\ Commit(OnStop([Cur EXCEPT !.outstanding = Without(@, i),
                                 !.aborted = outstanding[i]]))

\* delete(id)
Delete(id) ==
    /\ Ready
    /\ Len(SelectSeq(dbq, LAMBDA st : st.src = "delete")) < MaxPending
    /\ Commit(removeJob(Cur, id, "delete"))

\* has(id), by a program that awaits one has() before it calls the next.
Has(id) ==
    /\ Ready
    /\ \A i \in 1..Len(dbq) : dbq[i].op # "has"
    /\ Commit(has(Cur, id))

\* getFirstJobId(job) and getJobIds(job) called in the same turn, by a
\* program that awaits both before it searches again.
Search(job) ==
    /\ Ready
    /\ \A i \in 1..Len(dbq) : dbq[i].op # "search"
    /\ Commit(getJobIds(getFirstJobId(Cur, job), job))

\* ---------------------------------------------- the turns of the event loop

\* The statement at the head of the serialized database's queue completes.
StmtStep ==
    /\ ~crashed /\ dbq # <<>>
    /\ Commit(StmtDone(Popped, Head(dbq)))

\* The INSERT or DELETE at the head of the queue fails (SQLITE_BUSY,
\* SQLITE_FULL, SQLITE_IOERR).
StmtError ==
    /\ ~crashed /\ dbq # <<>>
    /\ Head(dbq).op \in {"insert", "delete"}
    /\ Commit(StmtFailed(Popped, Head(dbq)))

\* new sqlite3.Database(...) fails (the file cannot be opened or created).
OpenError ==
    /\ ~crashed /\ dbq # <<>>
    /\ Head(dbq).op = "opendb"
    /\ Commit(StmtFailed(Popped, Head(dbq)))

\* The timer of close() fires: db.close(...)
CloseTimer ==
    /\ ~crashed /\ closeTimer
    /\ Commit(IF db = "null" THEN Crash([Cur EXCEPT !.closeTimer = FALSE])
              ELSE Issue([Cur EXCEPT !.closeTimer = FALSE],
                         Stmt("closedb", 0, "", "close")))

\* A setImmediate callback runs.
Trigger ==
    /\ ~crashed /\ immediates > 0
    /\ Commit(trigger(Cur))

\* ------------------------------------------------------- the specifications

\* One queue from its construction to its close, used by any program that
\* opens it before it starts it; the storage does not fail.
Next ==
    \/ Open
    \/ Close
    \/ Start
    \/ Stop
    \/ \E job \in Jobs : Add(job)
    \/ \E i \in 1..Len(outstanding) : Done(i)
    \/ \E i \in 1..Len(outstanding) : Abort(i)
    \/ \E id \in 1..MaxJobs : Delete(id)
    \/ StmtStep
    \/ CloseTimer
    \/ Trigger

Spec == Init /\ [][Next]_vars

\* The same program when the storage may fail a statement.
NextF ==
    \/ Open
    \/ Start
    \/ \E job \in Jobs : Add(job)
    \/ \E i \in 1..Len(outstanding) : Done(i)
    \/ \E id \in 1..MaxJobs : Delete(id)
    \/ StmtStep
    \/ StmtError
    \/ Trigger

SpecF == Init /\ [][NextF]_vars

\* A program that opens the queue, adds its tasks in one burst or before it
\* starts the queue, starts it, and answers every next with done().
NextDrain ==
    \/ Open
    \/ Start
    \/ \E job \in Jobs : DrainAdd(job)
    \/ \E i \in 1..Len(outstanding) : Done(i)
    \/ StmtStep
    \/ Trigger

SpecDrain == Init /\ [][NextDrain]_vars

\* The program of SpecDrain when it may also answer a next with abort() and
\* start the queue again.
NextAbort ==
    \/ Open
    \/ Start
    \/ \E job \in Jobs : DrainAdd(job)
    \/ \E i \in 1..Len(outstanding) : Done(i)
    \/ \E i \in 1..Len(outstanding) : Abort(i)
    \/ StmtStep
    \/ Trigger

SpecAbort == Init /\ [][NextAbort]_vars

\* A program that adds tasks, starts and stops the queue at any time, and
\* answers a next, sooner or later, with done() or abort().
NextPace ==
    \/ Open
    \/ Start
    \/ Stop
    \/ \E job \in Jobs : Add(job)
    \/ \E i \in 1..Len(outstanding) : Done(i)
    \/ \E i \in 1..Len(outstanding) : Abort(i)
    \/ StmtStep
    \/ Trigger

SpecPace == Init /\ [][NextPace]_vars

\* A program that adds tasks to a queue, closes it, and opens and starts a
\* new queue on the same file; it answers every next with done().
NextRestart ==
    \/ Open
    \/ NewQueue
    \/ Close
    \/ Start
    \/ \E job \in Jobs : RestartAdd(job)
    \/ \E i \in 1..Len(outstanding) : Done(i)
    \/ StmtStep
    \/ CloseTimer
    \/ Trigger

SpecRestart == Init /\ [][NextRestart]_vars

\* A program that adds tasks to a started queue, answers next with done() and
\* deletes tasks by id.  Every statement issued completes and every
\* setImmediate callback runs.
NextResume ==
    \/ Open
    \/ Start
    \/ \E job \in Jobs : Add(job)
    \/ \E i \in 1..Len(outstanding) : Done(i)
    \/ \E id \in 1..MaxJobs : Delete(id)
    \/ StmtStep
    \/ Trigger

SpecResume ==
    Init /\ [][NextResume]_vars /\ WF_vars(StmtStep) /\ WF_vars(Trigger)

\* A program that opens a queue on an existing file, starts it and closes
\* it; the file may fail to open.
NextOpen ==
    \/ Open
    \/ Start
    \/ StartUnopened
    \/ Close
    \/ StmtStep
    \/ OpenError
    \/ CloseTimer
    \/ Trigger

SpecOpen == InitFile /\ [][NextOpen]_vars

\* A program that constructs a queue.
NextNew == New

SpecNew == InitNew /\ [][NextNew]_vars

\* A program that adds tasks, starts the queue, answers next with done(),
\* deletes tasks by id, and asks the queue whether it holds a task.
NextHas ==
    \/ Open
    \/ Start
    \/ \E job \in Jobs : Add(job)
    \/ \E i \in 1..Len(outstanding) : Done(i)
    \/ \E id \in 1..MaxJobs : Delete(id)
    \/ \E id \in 1..MaxJobs : Has(id)
    \/ StmtStep
    \/ Trigger

SpecHas == Init /\ [][NextHas]_vars

\* The same program searching the queue for the tasks with a payload.
NextSearch ==
    \/ Open
    \/ Start
    \/ \E job \in Jobs : Add(job)
    \/ \E i \in 1..Len(outstanding) : Done(i)
    \/ \E id \in 1..MaxJobs : Delete(id)
    \/ \E job \in Jobs : Search(job)
    \/ StmtStep
    \/ Trigger

SpecSearch == Init /\ [][NextSearch]_vars

\* A program that fills a queue it does not start, deletes tasks by id and
\* searches it.
NextLookup ==
    \/ Open
    \/ \E job \in Jobs : Add(job)
    \/ \E id \in 1..MaxJobs : Delete(id)
    \/ \E job \in Jobs : Search(job)
    \/ StmtStep

SpecLookup == Init /\ [][NextLookup]_vars

\* A program that opens a queue on an existing file, starts it and answers
\* every next with done().
NextFile ==
    \/ Open
    \/ Start
    \/ \E i \in 1..Len(outstanding) : Done(i)
    \/ StmtStep
    \/ Trigger

SpecFile == InitFile /\ [][NextFile]_vars

\* ------------------------------------------------------------ the claims

\* The ids of the tasks delivered so far.
DeliveredIds == {delivered[i].id : i \in 1..Len(delivered)}

\* No statement, timer or setImmediate callback is pending.
Settled == dbq = <<>> /\ immediates = 0 /\ ~closeTimer

\* C1: FIFO order.  After adds followed by start, with done() on every next,
\* the ids delivered are strictly increasing and the i-th task delivered is
\* the i-th task added.
FifoOrder ==
    /\ \A i, j \in 1..Len(delivered) : i < j => delivered[i].id < delivered[j].id
    /\ \A i \in 1..Len(delivered) :
          /\ i <= Len(addCalls)
          /\ delivered[i].job = addCalls[i]

FifoOrderWitness ==
    /\ Len(delivered) = 3
    /\ delivered[1].job # delivered[2].job
    /\ delivered[2].job = delivered[3].job

\* C2: count invariant.  On an open queue with no statement in flight,
\* getLength() is the number of rows of the store.
CountInvariant ==
    (Ready /\ dbq = <<>>) => length = Number(Cardinality(store))

\* C4: one at a time.  No next is emitted while an earlier next has been
\* answered by neither done() nor abort().
OneAtATime == Len(outstanding) <= 1

\* C7: stop.  A next is emitted only while the queue is started.
NoNextWhileStopped == [][Len(delivered') > Len(delivered) => run]_vars

\* C3: drain.  N >= 1 tasks added in one burst, start() before, between or
\* after the adds, done() on every next: every task is delivered once, empty
\* is emitted once, after the N-th done(), with getLength() = 0; and the
\* queue does not come to rest before that.
Drain ==
    /\ \A i, j \in 1..Len(delivered) : i # j => delivered[i].id # delivered[j].id
    /\ DeliveredIds \subseteq 1..Len(addCalls)
    /\ emptyEvents <= 1
    /\ emptyEvents = 1 =>
          /\ Len(addCalls) >= 1
          /\ Len(delivered) = Len(addCalls)
          /\ outstanding = <<>>
          /\ length = Number(0)
          /\ store = {}
    /\ (Ready /\ run /\ Settled /\ outstanding = <<>> /\ Len(addCalls) >= 1)
          => emptyEvents = 1

DrainWitness ==
    /\ emptyEvents = 1 /\ Settled
    /\ Len(delivered) = 3
    /\ length = Number(0)

\* The statement at the head of dbq is the SELECT trigger_next issued.
Rehydrating ==
    /\ dbq # <<>>
    /\ Head(dbq).op = "hydrate" /\ Head(dbq).src = "trigger"

\* C5: batch boundary.  Whenever the cache ran out while tasks remain, the
\* rehydration loads the oldest tasks of the store, at most batchSize of
\* them, starting with the task after the last one delivered; the tasks are
\* delivered in ascending order of id, none skipped, none repeated.
BatchBoundary ==
    /\ [][(Rehydrating /\ dbq' = Tail(dbq)) =>
            /\ queue = <<>>
            /\ Len(queue') = IF Cardinality(store) < batchSize
                             THEN Cardinality(store) ELSE batchSize
            /\ \A i \in 1..Len(queue') :
                  /\ queue'[i].id = Len(delivered) + i
                  /\ queue'[i].id \in Ids(store)]_vars
    /\ [](\A i \in 1..Len(delivered) : delivered[i].id = i)

\* More tasks than a batch were in the store, the cache ran out after a full
\* batch, and the task after it was loaded and delivered.
BatchBoundaryWitness ==
    /\ Len(delivered) = batchSize + 1
    /\ lastID > batchSize
    /\ delivered[batchSize + 1].id = batchSize + 1
    /\ Len(queue) >= 1 /\ Head(queue).id = batchSize + 1

\* A step in which abort() answers a delivery (done() issues a DELETE).
AbortStep == Len(outstanding') < Len(outstanding) /\ dbq' = dbq /\ ~crashed'

\* C6: abort.  abort() in response to next(task) stops the queue and removes
\* nothing: the task stays at the head of the cache and in the store and
\* getLength() is unchanged; the next start() schedules a delivery, and the
\* next that follows carries the same task id.
AbortSemantics ==
    /\ [][AbortStep =>
            /\ ~run'
            /\ queue' = queue /\ store' = store /\ length' = length
            /\ queue # <<>> /\ Head(queue).id = aborted'
            /\ aborted' \in Ids(store)]_vars
    /\ [][(aborted # 0 /\ ~run /\ run') => immediates' = immediates + 1]_vars
    /\ [][(aborted # 0 /\ Len(delivered') > Len(delivered)) =>
            delivered'[Len(delivered')].id = aborted]_vars

AbortSemanticsWitness ==
    /\ Len(delivered) = 3
    /\ delivered[1].id = 1
    /\ delivered[2].id = 2 /\ delivered[3].id = 2
    /\ starts = 2 /\ aborted = 0
    /\ length = Number(2)

\* C8: deferred delivery.  A next is emitted by a setImmediate callback that
\* was pending before the step, in a turn of its own: the step changes
\* neither the running flag, nor the count, nor the cache, nor the store,
\* nor the statements in flight, so the effects of the start(), add or done
\* completion that scheduled it are in place when the next handler runs.
DeferredDelivery ==
    [][Len(delivered') > Len(delivered) =>
          /\ immediates > 0 /\ immediates' = immediates - 1
          /\ Len(delivered') = Len(delivered) + 1
          /\ run' = run /\ length' = length /\ empty' = empty
          /\ queue' = queue /\ store' = store /\ dbq' = dbq]_vars

\* A next was emitted after a done() completed and decremented the count.
DeferredDeliveryWitness ==
    /\ Len(delivered) = 2 /\ delivered[2].id = 2
    /\ length = Number(1) /\ run

\* add() was just called for the task that will get id n, on a started queue
\* with getLength() = 0 and no statement or callback pending.
AddedWhenIdle(n) ==
    /\ Ready /\ run /\ length = Number(0)
    /\ lastID = n - 1
    /\ Len(dbq) = 1 /\ dbq[1].op = "insert"
    /\ immediates = 0 /\ ~closeTimer

\* C9: resume on add.  When add() is called on an open, started queue with
\* getLength() = 0 and nothing pending, the task added is eventually
\* delivered by a next, with no further start(), unless it is deleted by id
\* first or the process exits.
ResumeOnAdd ==
    \A n \in 1..MaxJobs :
        AddedWhenIdle(n) ~>
            \/ n \in DeliveredIds
            \/ lastID >= n /\ n \notin Ids(store)
            \/ crashed

\* C10: persistence.  close() and the open() of a new queue change no row of
\* the store; when the new queue is open, getLength() is the number of rows,
\* every row holds the id and the payload its add() was given, and the cache
\* holds the oldest of them; the new queue delivers the stored tasks with
\* their ids and payloads, oldest first, none skipped.
PersistenceRoundTrip ==
    /\ [][(~opened \/ ~opened') => store' = store]_vars
    /\ [][(~opened /\ opened' /\ opens > 1) =>
            /\ length' = Number(Cardinality(store))
            /\ \A r \in store : r.job = JSONstringify(addCalls[r.id])
            /\ Len(queue') = IF Cardinality(store) < batchSize
                             THEN Cardinality(store) ELSE batchSize
            /\ \A i \in 1..Len(queue') :
                  /\ queue'[i].id \in Ids(store)
                  /\ queue'[i].job = addCalls[queue'[i].id]
                  /\ \A k \in Ids(store) :
                        k < queue'[i].id => \E j \in 1..(i - 1) : queue'[j].id = k
         ]_vars
    /\ []((opens > 1 /\ opened) =>
            \A i \in 1..Len(delivered) :
               /\ delivered[i].id \in 1..lastID
               /\ delivered[i].job = addCalls[delivered[i].id]
               /\ i > 1 => delivered[i].id = delivered[i - 1].id + 1
               /\ \A k \in Ids(store) : k >= delivered[1].id)

\* The second queue delivered three tasks that the first queue had added.
PersistenceRoundTripWitness ==
    /\ opens = 2 /\ opened
    /\ Len(delivered) = 3
    /\ delivered[1].id = 1
    /\ delivered[1].job # delivered[2].job
    /\ length = Number(0)

\* has() settles its promise in this step.
HasSettles ==
    /\ settled'.has # settled.has
    /\ settled'.has.how \in {"fulfilled", "rejected"}

\* has() is called or its SELECT completes in this step.
HasStep ==
    Len(SelectSeq(dbq', LAMBDA st : st.op = "has"))
        # Len(SelectSeq(dbq, LAMBDA st : st.op = "has"))

\* C11: has(id) fulfils with true when a task with that id is in the cache or
\* in the store and with false when it is in neither, and it changes nothing
\* of the queue.
HasAnswers ==
    [][/\ HasSettles =>
            /\ settled'.has.how = "fulfilled"
            /\ settled'.has.value =
                   IF settled'.has.arg \in Ids(store) \/ Cached(Cur, settled'.has.arg)
                   THEN "true" ELSE "false"
       /\ HasStep =>
            UNCHANGED <<store, counter, lastID, empty, queue, length, db,
                        opened, run, immediates, crashed>>]_vars

\* The SELECT of a search issued for src completes in this step.
SearchSettles(src) ==
    /\ dbq # <<>> /\ Head(dbq).op = "search" /\ Head(dbq).src = src
    /\ dbq' = Tail(dbq)

\* C12: getJobIds(pattern) resolves with exactly the ids of the tasks in the
\* store whose stored text is the serialised pattern, in ascending order (the
\* empty list when there is none).
GetJobIdsAnswers ==
    [][SearchSettles("getJobIds") =>
          LET r    == settled'.getJobIds
              text == JSONstringify(Head(dbq).job)
          IN  /\ r.how = "fulfilled" /\ r.arg = Head(dbq).job
              /\ \A id \in 0..lastID :
                    (\E i \in 1..Len(r.value) : r.value[i] = id)
                        <=> (\E row \in store : row.id = id /\ row.job = text)
              /\ \A i, j \in 1..Len(r.value) : i < j => r.value[i] < r.value[j]
      ]_vars

\* getJobIds found both tasks of the store.
GetJobIdsAnswersWitness ==
    /\ settled.getJobIds.how = "fulfilled"
    /\ settled.getJobIds.value = <<1, 2>>
    /\ Cardinality(store) = 2

\* C13: getFirstJobId(pattern) resolves with the lowest id among the tasks
\* with that payload, or null, which is the first element of what
\* getJobIds(pattern), called in the same state, resolves with.
FirstAgrees ==
    [][SearchSettles("getJobIds") =>
          LET ids   == settled'.getJobIds.value
              first == settled'.getFirstJobId
          IN  /\ first.how = "fulfilled"
              /\ first.value = IF Len(ids) = 0 THEN Null ELSE Number(ids[1])
      ]_vars

\* delete(id) is called in this step.
DeleteCall(id) == dbq' = Append(dbq, Stmt("delete", id, "", "delete"))

\* The DELETE of a delete(id) completes in this step.
DeleteSettles ==
    /\ dbq # <<>> /\ Head(dbq).op = "delete" /\ Head(dbq).src = "delete"
    /\ dbq' = Tail(dbq)

\* C14: delete(id) of a stored task.  The call takes the task out of the
\* cache and leaves the other cached tasks in their order; when its DELETE
\* completes the row is gone and no other, getLength() is one less, delete is
\* emitted with the id, the promise is fulfilled with the id, the running
\* flag is as it was and the task is not in the cache.
DeleteRemoves ==
    [][/\ \A id \in 1..MaxJobs :
            (DeleteCall(id) /\ id \in Ids(store)) =>
                /\ queue' = SelectSeq(queue, LAMBDA task : task.id # id)
                /\ UNCHANGED <<store, length, run, deleteEvents>>
       /\ (DeleteSettles /\ Head(dbq).id \in Ids(store)) =>
            LET id == Head(dbq).id
            IN  /\ store' = {r \in store : r.id # id}
                /\ length' = Number(ToNumber(length) - 1)
                /\ deleteEvents' = Append(deleteEvents, id)
                /\ settled'.delete =
                       [how |-> "fulfilled", arg |-> id, value |-> id]
                /\ run' = run /\ queue' = queue
                /\ ~Cached(Cur, id)
      ]_vars

\* C15: delete(id) of an id the store does not hold.  The promise rejects,
\* no delete event is emitted, and neither the call nor the completion of the
\* DELETE changes the store, the cache or getLength().
DeleteMissingRejects ==
    [][/\ \A id \in 1..MaxJobs :
            (DeleteCall(id) /\ id \notin Ids(store) /\ id <= lastID) =>
                UNCHANGED <<store, queue, length, deleteEvents>>
       /\ (DeleteSettles /\ Head(dbq).id \notin Ids(store)) =>
            /\ settled'.delete =
                   [how |-> "rejected", arg |-> Head(dbq).id, value |-> 0]
            /\ UNCHANGED <<store, queue, length, deleteEvents>>
      ]_vars

\* done() is called in this step for the i-th of the unanswered deliveries.
DoneCall(i) ==
    /\ i \in 1..Len(outstanding)
    /\ outstanding' = Without(outstanding, i)
    /\ crashed' \/ Len(dbq') = Len(dbq) + 1

\* A DELETE for this id issued by src is in flight.
InFlight(id, src) ==
    \E k \in 1..Len(dbq) : dbq[k] = Stmt("delete", id, "", src)

\* C16: delete(id) racing with done() for the delivered head task.  Whichever
\* is called second, the two DELETEs name that task and the cache loses no
\* other task; the DELETE that finds no row changes nothing and is an error
\* (delete() rejects, done() exits).
RaceRemovesOne ==
    [][/\ \A i \in 1..Len(outstanding) :
            (DoneCall(i) /\ InFlight(outstanding[i], "delete")) =>
                /\ ~crashed'
                /\ dbq' = Append(dbq, Stmt("delete", outstanding[i], "", "done"))
                /\ queue' = SelectSeq(queue, LAMBDA task : task.id # outstanding[i])
       /\ \A id \in 1..MaxJobs :
            (DeleteCall(id) /\ InFlight(id, "done")) => queue' = queue
       /\ (dbq # <<>> /\ Head(dbq).op = "delete" /\ dbq' = Tail(dbq)
             /\ Head(dbq).id \notin Ids(store)) =>
            /\ store' = store /\ length' = length
            /\ Head(dbq).src = "done" => crashed'
            /\ Head(dbq).src = "delete" => settled'.delete.how = "rejected"
      ]_vars

Unopened == opens = 0 \/ settled.close.how = "fulfilled"

\* C18: on a queue that was never opened or whose close() has completed,
\* isEmpty() and getSqlite3() throw, and start() throws, changes nothing else,
\* and leaves the queue stopped with no delivery scheduled.
NotOpenThrows ==
    (~crashed /\ Unopened) =>
        /\ isEmpty(Cur).thrown = NotOpenIsEmpty
        /\ getSqlite3(Cur).thrown = NotOpenGetSqlite3
        /\ start(Cur) = Throw(Cur, NotOpenStart)
        /\ ~isStarted(start(Cur))
        /\ start(Cur).immediates = immediates /\ start(Cur).dbq = dbq

\* start() threw on a queue that had delivered a task and was then closed.
NotOpenThrowsWitness ==
    /\ settled.close.how = "fulfilled" /\ NotOpenStart \in thrown
    /\ Len(delivered) = 1 /\ dbq = <<>>

\* C19: after open() has failed the queue is unopened: isOpen() is false, no
\* open event was emitted, and start() and getSqlite3() throw the not-open
\* error as they did before open() was called.
OpenFailureLeavesUnopened ==
    (~crashed /\ settled.open.how = "rejected") =>
        /\ ~isOpen(Cur)
        /\ openEvents = 0
        /\ start(Cur) = Throw(Cur, NotOpenStart)
        /\ getSqlite3(Cur).thrown = NotOpenGetSqlite3

\* C20: when open() fulfils, getLength() is the number of rows, the cache
\* holds the min(batchSize, count) oldest rows in ascending id order, each
\* with the payload its row holds, isEmpty() is (count = 0), isOpen() is true
\* and open has been emitted once.
OpenSucceeds ==
    [][(settled.open.how = "pending" /\ settled'.open.how = "fulfilled") =>
          LET n == Cardinality(store')
          IN  /\ getLength(Cur') = Number(n)
              /\ Len(queue') = IF n < batchSize THEN n ELSE batchSize
              /\ \A i \in 1..Len(queue') :
                    /\ \E r \in store' :
                          r.id = queue'[i].id
                              /\ r.job = JSONstringify(queue'[i].job)
                    /\ \A k \in Ids(store') :
                          k < queue'[i].id => \E j \in 1..(i - 1) : queue'[j].id = k
                    /\ \A j \in 1..(i - 1) : queue'[j].id < queue'[i].id
              /\ isEmpty(Cur') =
                     [thrown |-> "", value |-> IF n = 0 THEN "true" ELSE "false"]
              /\ isOpen(Cur')
              /\ openEvents' = 1
      ]_vars

\* A queue was opened on a file of three rows whose counter was not set.
OpenSucceedsWitness ==
    /\ settled.open.how = "fulfilled" /\ openEvents = 1
    /\ Cardinality(store) = 3 /\ Len(queue) = 2 /\ length = Number(3)
    /\ \A r \in store : r.job = JSONstringify("a") <=> r.id # 1

\* close() completes in this step: db.close's callback runs.
CloseCompletes ==
    settled.close.how = "pending" /\ settled'.close.how = "fulfilled"

\* C21: when close() completes, close has been emitted once, isOpen() and
\* isStarted() are false, the cache is empty, isEmpty() throws, getLength() is
\* back to the unknown count of a new queue, and the store is as it was.
CloseResets ==
    [][CloseCompletes =>
          /\ heard'.close.n = 1
          /\ ~isOpen(Cur') /\ ~isStarted(Cur')
          /\ queue' = <<>>
          /\ isEmpty(Cur').thrown = NotOpenIsEmpty
          /\ getLength(Cur') = Null
          /\ store' = store
      ]_vars

\* The add event is emitted in this step.
AddEventFires == heard'.add.n > heard.add.n

\* No task was removed from the queue so far, and no removal is under way.
NoRemovals ==
    /\ Ids(store') = 1..lastID'
    /\ \A i \in 1..Len(dbq') : dbq'[i].op # "delete"

\* C22: when the add event of a task fires, getLength() already counts the
\* task; at the k-th add event of a queue that started empty and had no
\* removal getLength() is k; and add() resolves with the id the event carries.
AddCounted ==
    [][AddEventFires =>
          /\ heard'.add.n = heard.add.n + 1
          /\ heard'.add.length = Number(ToNumber(length) + 1)
          /\ heard'.add.length = getLength(Cur')
          /\ NoRemovals => heard'.add.length = Number(heard'.add.n)
          /\ settled'.add.how = "fulfilled"
          /\ settled'.add.value = heard'.add.id
          /\ heard'.add.id = lastID' /\ lastID' = lastID + 1
      ]_vars

\* The third add event was heard with getLength() = 3, before any delivery
\* was answered.
AddCountedWitness ==
    /\ heard.add = [n |-> 3, id |-> 3, length |-> Number(3)]
    /\ settled.add.value = 3
    /\ Ids(store) = 1..3

\* The delete event is emitted in this step.
DeleteEventFires == heard'.delete.n > heard.delete.n

\* C23: when the delete event of a task fires, the task is in neither the
\* cache nor the store and getLength() has been decremented for it.
DeleteObservable ==
    [][DeleteEventFires =>
          /\ heard'.delete.id = Head(dbq).id
          /\ ~heard'.delete.cached
          /\ ~heard'.delete.stored
          /\ heard'.delete.length = Number(ToNumber(length) - 1)
      ]_vars

\* The empty event is emitted in this step.
EmptyEventFires == heard'.empty.n > heard.empty.n

EmptyOnce ==
    [][EmptyEventFires =>
          /\ heard'.empty.n = heard.empty.n + 1
          /\ heard.empty.n > 0 => heard.add.n > heard.empty.adds]_vars

\* empty was emitted a second time, after the queue was stopped and started
\* again and the second task was added and done.
EmptyOnceWitness ==
    /\ heard.empty.n = 2 /\ heard.empty.adds = 2
    /\ starts = 2 /\ store = {}

\* The next event is emitted in this step.
NextEventFires == Len(delivered') = Len(delivered) + 1

\* C26: delivery removes nothing.  The step that emits next changes neither
\* the store, nor the cache, nor getLength(), and the task it carries is in
\* the store and at the head of the cache; a task delivered and not yet
\* answered is in the store; getLength() goes down only when a DELETE
\* completes; and when N tasks were added, none is in flight and every
\* earlier next was answered with done(), getLength() at the k-th next is
\* N - k + 1.
DeliveryKeeps ==
    /\ [][NextEventFires =>
             LET task == delivered'[Len(delivered')]
                 k    == Len(delivered')
             IN  /\ store' = store /\ queue' = queue
                 /\ getLength(Cur') = getLength(Cur)
                 /\ task.id \in Ids(store')
                 /\ queue' # <<>> /\ Head(queue') = task
                 /\ (\A i \in 1..Len(dbq) : dbq[i].op # "insert") =>
                       getLength(Cur') = Number(Len(addCalls) - k + 1)]_vars
    /\ [](\A i \in 1..Len(outstanding) : outstanding[i] \in Ids(store))
    /\ [][ToNumber(length') < ToNumber(length) =>
             dbq # <<>> /\ Head(dbq).op = "delete"]_vars

\* The third of four tasks was delivered and is not yet answered: it is in
\* the store and getLength() is 2.
DeliveryKeepsWitness ==
    /\ Len(addCalls) = 4 /\ lastID = 4
    /\ Len(delivered) = 3 /\ outstanding = <<3>>
    /\ getLength(Cur) = Number(2)
    /\ Ids(store) = {3, 4}

\* C27: the cache is a view of the store.  Every task in the cache is a row
\* of the store, under any interleaving of add(), done(), delete(), start()
\* and the storage callbacks.
CacheInStore == \A i \in 1..Len(queue) : queue[i].id \in Ids(store)

\* The callback of an INSERT runs in this step, and settles its add().
AddSettles == settled'.add.n > settled.add.n

\* C28: the count is incremented and add emitted only when the INSERT
\* succeeded.  When the INSERT fails (its callback runs and no row was
\* inserted) add() rejects, getLength() is unchanged and no add event fires.
InsertFailureRejects ==
    [][/\ (AddSettles /\ lastID' = lastID) =>
            /\ settled'.add.how = "rejected"
            /\ getLength(Cur') = getLength(Cur)
            /\ ~AddEventFires
            /\ store' = store
       /\ (AddEventFires \/ ToNumber(length') > ToNumber(length)) =>
            /\ lastID' = lastID + 1
            /\ lastID' \in Ids(store')
      ]_vars

HydrateSucceeds ==
    /\ dbq # <<>> /\ Head(dbq).op = "hydrate" /\ dbq' = Tail(dbq)
    /\ ~crashed' /\ settled'.open.how # "rejected"

HydrateCompletes(src) ==
    /\ dbq # <<>> /\ Head(dbq).op = "hydrate" /\ Head(dbq).src = src
    /\ dbq' = Tail(dbq)

\* One of the batchSize oldest rows of the store holds a text that is not
\* JSON.
BadRowInBatch ==
    \E r \in store :
        /\ JSONparse(r.job) = SyntaxError
        /\ Cardinality({o \in store : o.id < r.id}) < batchSize

\* C31: a row that cannot be parsed makes the hydration that reads it fail
\* with the parse error.  open() rejects with it, and emits no open event,
\* exactly when such a row is among the batchSize oldest rows; the
\* rehydration of the delivery check that reads such a row ends the process
\* and schedules no delivery.
BadRowFails ==
    [][/\ HydrateCompletes("open") =>
            IF BadRowInBatch
            THEN /\ settled'.open.how = "rejected"
                 /\ settled'.open.value = SyntaxError
                 /\ ~isOpen(Cur') /\ openEvents' = openEvents
            ELSE /\ settled'.open.how = "fulfilled"
                 /\ \A i \in 1..Len(queue') : queue'[i] # Undefined
       /\ HydrateCompletes("trigger") =>
            IF BadRowInBatch
            THEN crashed' /\ immediates' = immediates
            ELSE ~crashed' /\ \A i \in 1..Len(queue') : queue'[i] # Undefined
      ]_vars

\* open() was rejected with the parse error on a file of three rows whose
\* second row is not JSON.
BadRowFailsWitness ==
    /\ settled.open.how = "rejected" /\ settled.open.value = SyntaxError
    /\ Cardinality(store) = 3
    /\ \A r \in store : JSONparse(r.job) = SyntaxError <=> r.id = 2


\* The DELETE that done() issued completes and finds no row to remove.
DoneDeletesNothing ==
    /\ ~crashed
    /\ dbq # <<>>
    /\ Head(dbq).op = "delete" /\ Head(dbq).src = "done"
    /\ Head(dbq).id \notin Ids(store)
    /\ StmtStep

\* C32: when the DELETE issued by done() removes no row, the error is
\* printed and the process exits: the length is not decremented, no
\* trigger_next is raised (no delivery is scheduled, no next and no empty
\* event is emitted), and nothing happens after the exit.
ZeroRowsFatal ==
    [][/\ DoneDeletesNothing =>
            /\ crashed'
            /\ [err |-> NotRemoved, id |-> Head(dbq).id] \in stderr'
            /\ length' = length /\ store' = store /\ queue' = queue
            /\ immediates' = immediates /\ delivered' = delivered
            /\ emptyEvents' = emptyEvents /\ heard' = heard
       /\ crashed => UNCHANGED vars]_vars

\* done() was answered twice for one delivery while another task waited:
\* the second DELETE found no row, and the process exited with a task
\* still counted.
ZeroRowsFatalWitness ==
    /\ crashed
    /\ \E id \in 1..MaxJobs : [err |-> NotRemoved, id |-> id] \in stderr
    /\ ToNumber(length) > 0



\* C33: start() on an open queue that is already running changes nothing
\* (no trigger_next is raised, so no delivery is scheduled and no next or
\* empty event is emitted), and a second start() right after a start()
\* changes nothing more than the first did.
StartIdempotent ==
    (~crashed /\ opened) =>
        /\ run => start(Cur) = Cur
        /\ start(start(Cur)) = start(Cur)

\* A running queue with a task in its cache and no delivery pending (the
\* program has not yet answered the last next): a delivery check raised
\* here would schedule a second delivery of the head.
StartIdempotentWitness ==
    /\ ~crashed /\ opened /\ run
    /\ starts = 1
    /\ empty = "false" /\ Len(queue) > 0
    /\ immediates = 0 /\ dbq = <<>>
    /\ Len(outstanding) = 1
    /\ start(Cur) = Cur



\* C34: every next event carries a task (never undefined) that is the head
\* of the cache and a row of the store when the event is emitted.
NextCarriesHead ==
    [][NextEventFires =>
          LET task == delivered'[Len(delivered')]
          IN  /\ task # Undefined
              /\ queue' # <<>> /\ Head(queue') = task
              /\ task.id \in Ids(store')]_vars



\* done() issues its DELETE for the task with this id.
DoneRemoves(id) ==
    /\ Len(dbq') = Len(dbq) + 1
    /\ dbq'[Len(dbq')] = Stmt("delete", id, "", "done")

\* C35: a row leaves the store only through the DELETE of a done() or of a
\* delete(id) that names it, and the DELETE of a done() names a task that
\* a next event had delivered when done() was called.
AcknowledgedOnly ==
    [][/\ \A r \in store \ store' :
            /\ dbq # <<>> /\ Len(dbq') >= Len(dbq) - 1
            /\ SubSeq(dbq', 1, Len(dbq) - 1) = Tail(dbq)
            /\ Head(dbq).op = "delete" /\ Head(dbq).id = r.id
       /\ \A id \in 1..MaxJobs : DoneRemoves(id) => id \in DeliveredIds
      ]_vars



\* No statement is in flight, no delivery is scheduled and no close is
\* under way.
NothingInFlight == dbq = <<>> /\ immediates = 0 /\ ~closeTimer

\* C36: on an open queue with nothing in flight, isEmpty() is true exactly
\* when getLength() is 0.
EmptyAgreesWithLength ==
    (Ready /\ NothingInFlight) =>
        (isEmpty(Cur).value = "true" <=> getLength(Cur) = Number(0))


====
